---- MODULE Spec2Model ----
(***************************************************************************)
(* A state-machine model of the Express/Mongoose REST API:                 *)
(*   - the Authentication Gate (authenticate) and the user routes,         *)
(*   - the Credential Handler Set (POST /register, POST /login),           *)
(*   - the Error Translator (errorHandler),                                *)
(*   - the two collections of the store (admins, users).                   *)
(* The router of the user routes is the one src/models/Admin.js defines    *)
(* after the Admin schema; server.js mounts it before the credential       *)
(* routes, and routes/Auth.js uses the Admin model of that schema.         *)
(* A request is received (routing, gate and the handler's synchronous      *)
(* prefix run in one step of the event loop), then every awaited call of   *)
(* its handler returns in a step of its own, so that requests interleave   *)
(* exactly at the handler's await points.                                  *)
(***************************************************************************)
EXTENDS Integers, Sequences, FiniteSets, TLC

VARIABLES
    admins,     \* the admin collection: a sequence of documents
    users,      \* the user collection: a sequence of documents, in store order
    nextId,     \* number of ObjectIds generated so far
    now,        \* the clock, in hours
    wallet,     \* the token the client keeps (localStorage 'token'), or <<>>
    inflight,   \* per connection: the request, its await point, then its response
    storeOp,    \* the last call made on a collection, and on whose behalf
    created,    \* history: the documents POST /users returned, until updated or deleted
    registered, \* history: the email and password of the registrations answered 201
    raised,     \* per connection: the failure its request raised, or <<>>
    responses   \* per connection: the number of responses its request was sent

vars == <<admins, users, nextId, now, wallet, inflight, storeOp, created, registered,
          raised, responses>>

----------------------------------------------------------------------------
(* Bounds of the model *)

MaxAdmins == 2
MaxUsers == 2
MaxTime == 24

----------------------------------------------------------------------------
(* JavaScript values carried by JSON bodies.  A string is a sequence of    *)
(* one-character strings.                                                  *)

Undefined == [t |-> "undefined"]
Str(s) == [t |-> "string", v |-> s]
Num(digits) == [t |-> "number", v |-> digits]

IsString(x) == x.t = "string"

\* !x of JavaScript
Falsy(x) ==
    \/ x.t = "undefined"
    \/ (x.t = "string" /\ x.v = <<>>)
    \/ (x.t = "number" /\ x.v = <<"0">>)

\* String.prototype.toLowerCase, on the alphabet of the model
LowerChar(c) ==
    CASE c = "A" -> "a"
      [] c = "B" -> "b"
      [] c = "N" -> "n"
      [] OTHER -> c

toLowerCase(s) == [i \in 1..Len(s) |-> LowerChar(s[i])]

\* String.prototype.trim
RECURSIVE TrimLeft(_)
TrimLeft(s) == IF s # <<>> /\ Head(s) = " " THEN TrimLeft(Tail(s)) ELSE s

RECURSIVE TrimRight(_)
TrimRight(s) ==
    IF s # <<>> /\ s[Len(s)] = " " THEN TrimRight(SubSeq(s, 1, Len(s) - 1)) ELSE s

trim(s) == TrimRight(TrimLeft(s))

----------------------------------------------------------------------------
(* bcrypt *)

SaltRounds == 12

\* bcrypt.hash(data, rounds): rejects unless data is a string
HashRejects(data) == ~IsString(data)

\* the digest: a value that is never a plaintext
Hash(data) == [t |-> "bcrypt", cost |-> SaltRounds, of |-> data.v]

\* bcrypt.compare resolving to true whatever the password
CompareAny(data, hash) == TRUE

\* bcrypt.compare(data, hash): rejects unless data is a string
CompareRejects(data) == ~IsString(data)

Compare(data, hash) == hash = Hash(data)

----------------------------------------------------------------------------
(* jsonwebtoken *)

JWT_SECRET == "your-secret-key"

ExpiresIn == 24

Signature(payload, key) == <<payload, key>>

\* jwt.sign({ id }, secret, { expiresIn: "24h" })
Sign(id, secret) ==
    LET payload == [id |-> id, iat |-> now, exp |-> now + ExpiresIn]
    IN  [payload |-> payload, sig |-> Signature(payload, secret)]

\* jwt.verify(token, secret): the message of the error thrown, or "ok"
VerifyAt(token, secret, clock) ==
    IF token.sig # Signature(token.payload, secret) THEN "invalid signature"
    ELSE IF clock >= token.payload.exp THEN "jwt expired"
    ELSE "ok"

Verify(token, secret) == VerifyAt(token, secret, now)

----------------------------------------------------------------------------
(* Errors and the Error Translator *)

\* new Error(message); statusCode 0 stands for an error that carries none
Err(message, statusCode) == [message |-> message, statusCode |-> statusCode]

\* the errors the libraries throw: none of them carries a statusCode
ValidationFailed == Err("validation failed", 0)
DuplicateKey == Err("E11000 duplicate key error", 0)
CastFailed == Err("Cast to ObjectId failed", 0)
HashArguments == Err("data and salt arguments required", 0)
CompareArguments == Err("data and hash must be strings", 0)
NotAFunction == Err("is not a function", 0)

Send(status, body) == [status |-> status, body |-> body]

\* errorHandler answering every failure with the default status and message
errorHandlerDefault(err) ==
    Send(500, [success |-> FALSE, error |-> "Server Error"])

\* errorHandler(err, req, res, next)
errorHandler(err) ==
    Send(IF err.statusCode # 0 THEN err.statusCode ELSE 500,
         [success |-> FALSE,
          error |-> IF err.message # "" THEN err.message ELSE "Server Error"])

----------------------------------------------------------------------------
(* The Authentication Gate *)

\* the Authorization header: absent, or "<scheme> <credentials...>"
NoHeader == [present |-> FALSE, rest |-> <<>>]
Bearer(token) == [present |-> TRUE, rest |-> <<token>>]
SchemeOnly == [present |-> TRUE, rest |-> <<>>]

\* req.headers.authorization?.split(" ")[1], as a sequence of zero or one token
HeaderToken(authorization) ==
    IF authorization.present /\ authorization.rest # <<>>
    THEN <<authorization.rest[1]>>
    ELSE <<>>

\* authenticate with the catch clause losing its statusCode assignment
authenticateNoStatus(req) ==
    LET token == HeaderToken(req.authorization)
    IN  IF token = <<>>
        THEN [ok |-> FALSE, err |-> Err("Authentication required", 401)]
        ELSE LET verdict == Verify(token[1], JWT_SECRET)
             IN  IF verdict = "ok"
                 THEN [ok |-> TRUE, user |-> token[1].payload]
                 ELSE [ok |-> FALSE, err |-> Err(verdict, 0)]

\* authenticate that calls next() when no token is present
authenticateOpen(req) ==
    LET token == HeaderToken(req.authorization)
    IN  IF token = <<>>
        THEN [ok |-> TRUE, user |-> Undefined]
        ELSE LET verdict == Verify(token[1], JWT_SECRET)
             IN  IF verdict = "ok"
                 THEN [ok |-> TRUE, user |-> token[1].payload]
                 ELSE [ok |-> FALSE, err |-> Err(verdict, 401)]

\* authenticate(req, res, next): next() with req.user set, or next(error)
authenticate(req) ==
    LET token == HeaderToken(req.authorization)
    IN  IF token = <<>>
        THEN [ok |-> FALSE, err |-> Err("Authentication required", 401)]
        ELSE LET verdict == Verify(token[1], JWT_SECRET)
             IN  IF verdict = "ok"
                 THEN [ok |-> TRUE, user |-> token[1].payload]
                 ELSE [ok |-> FALSE, err |-> Err(verdict, 401)]

----------------------------------------------------------------------------
(* Routing: app.use("/api/", userRoutes, authRoutes); the first route in   *)
(* registration order whose method and path pattern match takes the        *)
(* request.                                                                *)

Params == {":id", ":key", ":page"}

Route(method, pattern, gated, handler) ==
    [method |-> method, pattern |-> pattern, gated |-> gated, handler |-> handler]

Routes == <<
    Route("POST",   <<"users">>,                  TRUE,  "createUser"),
    Route("POST",   <<"users", "bulk">>,          TRUE,  "createBulk"),
    Route("GET",    <<"users">>,                  TRUE,  "listUsers"),
    Route("GET",    <<"users", ":id">>,           TRUE,  "getUser"),
    Route("PUT",    <<"users", ":id">>,           TRUE,  "updateUser"),
    Route("PUT",    <<"users", "bulk">>,          TRUE,  "updateBulk"),
    Route("DELETE", <<"users", ":id">>,           TRUE,  "deleteUser"),
    Route("DELETE", <<"users", "bulk">>,          TRUE,  "deleteBulk"),
    Route("GET",    <<"search", ":key">>,         TRUE,  "search"),
    Route("GET",    <<"users", "page", ":page">>, TRUE,  "paginate"),
    Route("POST",   <<"register">>,               FALSE, "register"),
    Route("POST",   <<"login">>,                  FALSE, "login") >>

Matches(route, method, path) ==
    /\ route.method = method
    /\ Len(route.pattern) = Len(path)
    /\ \A i \in 1..Len(path) :
          route.pattern[i] \in Params \/ route.pattern[i] = path[i]

\* index of the route that handles the request; 0 when none does
MatchRoute(method, path) ==
    LET hits == {i \in 1..Len(Routes) : Matches(Routes[i], method, path)}
    IN  IF hits = {} THEN 0
        ELSE CHOOSE i \in hits : \A j \in hits : i <= j

\* req.params of the matched route: the path segment bound to a parameter
Param(route, path, name) ==
    LET at == {i \in 1..Len(path) : route.pattern[i] = name}
    IN  path[CHOOSE i \in at : TRUE]

----------------------------------------------------------------------------
(* The store: Mongoose models over the two collections *)

\* the ObjectIds the store generates, in order
IdOf == <<"id1", "id2", "id3", "id4", "id5", "id6", "id7", "id8">>

\* a well-formed ObjectId that names no document
AbsentId == "id0"

\* a path segment that casts to an ObjectId
WellFormed(id) == id = AbsentId \/ \E i \in 1..Len(IdOf) : IdOf[i] = id

\* schema setters: name { trim: true }, email { lowercase: true }
CastName(x) == IF IsString(x) THEN Str(trim(x.v)) ELSE x
CastEmail(x) == IF IsString(x) THEN Str(toLowerCase(x.v)) ELSE x

\* required: [true, ...] on a String path
Required(x) == x.t # "undefined" /\ ~(IsString(x) /\ x.v = <<>>)

\* the length of a bcrypt digest, and AdminSchema.password.minLength
DigestLength == 60
MinLength == 6

\* the password validators of AdminSchema, on the value create() is given
PasswordValid(password) ==
    /\ password.t # "undefined"
    /\ (password.t = "bcrypt" => DigestLength >= MinLength)

WithEmail(coll, email) == {i \in 1..Len(coll) : coll[i].email = email}
WithId(coll, id) == {i \in 1..Len(coll) : coll[i]._id = id}

\* Model.create(doc): validate, then insert under the unique index on email
Create(coll, doc, valid) ==
    IF ~valid THEN [ok |-> FALSE, err |-> ValidationFailed, coll |-> coll]
    ELSE IF WithEmail(coll, doc.email) # {}
    THEN [ok |-> FALSE, err |-> DuplicateKey, coll |-> coll]
    ELSE [ok |-> TRUE, doc |-> doc, coll |-> Append(coll, doc)]

\* Admin.create({ ...req.body, password: hashedPassword })
AdminCreate(body, hashedPassword) ==
    LET doc == [_id |-> IdOf[nextId + 1],
                name |-> CastName(body.name),
                email |-> CastEmail(body.email),
                password |-> hashedPassword]
    IN  Create(admins, doc,
               Required(doc.name) /\ Required(doc.email) /\ PasswordValid(doc.password))

\* Admin.findOne({ email }): the filter is cast by the schema, setters included
AdminFindOne(email) ==
    LET hits == WithEmail(admins, CastEmail(email))
    IN  IF hits = {} THEN <<>>
        ELSE <<admins[CHOOSE i \in hits : \A j \in hits : i <= j]>>

\* User.create(req.body)
UserCreate(body) ==
    LET doc == [_id |-> IdOf[nextId + 1],
                name |-> CastName(body.name),
                email |-> CastEmail(body.email)]
    IN  Create(users, doc, Required(doc.name) /\ Required(doc.email))

\* findById that ignores the id and returns the first document
UserFindByIdFirst(id) ==
    IF ~WellFormed(id) THEN [ok |-> FALSE, err |-> CastFailed]
    ELSE [ok |-> TRUE, found |-> IF users = <<>> THEN <<>> ELSE <<users[1]>>]

\* User.findById(id)
UserFindById(id) ==
    IF ~WellFormed(id) THEN [ok |-> FALSE, err |-> CastFailed]
    ELSE LET hits == WithId(users, id)
         IN  [ok |-> TRUE,
              found |-> IF hits = {} THEN <<>> ELSE <<users[CHOOSE i \in hits : TRUE]>>]

\* the document after { $set: update }: the paths the update names, cast
ApplySet(doc, update) ==
    [doc EXCEPT
        !.name = IF update.name.t # "undefined" THEN CastName(update.name) ELSE @,
        !.email = IF update.email.t # "undefined" THEN CastEmail(update.email) ELSE @]

\* runValidators: the validators of the paths the update names
UpdateValid(update) ==
    /\ update.name.t # "undefined" => Required(CastName(update.name))
    /\ update.email.t # "undefined" => Required(CastEmail(update.email))

\* User.findByIdAndUpdate(id, update, { new: true, runValidators: true })
UserFindByIdAndUpdate(id, update) ==
    IF ~WellFormed(id) THEN [ok |-> FALSE, err |-> CastFailed, coll |-> users]
    ELSE IF ~UpdateValid(update)
    THEN [ok |-> FALSE, err |-> ValidationFailed, coll |-> users]
    ELSE LET hits == WithId(users, id)
         IN  IF hits = {} THEN [ok |-> TRUE, found |-> <<>>, coll |-> users]
             ELSE LET i == CHOOSE i \in hits : TRUE
                      doc == ApplySet(users[i], update)
                  IN  IF WithEmail(users, doc.email) \ {i} # {}
                      THEN [ok |-> FALSE, err |-> DuplicateKey, coll |-> users]
                      ELSE [ok |-> TRUE, found |-> <<doc>>,
                            coll |-> [users EXCEPT ![i] = doc]]

RECURSIVE Without(_, _)
\* the documents of coll, in order, whose _id is not in ids
Without(coll, ids) ==
    IF coll = <<>> THEN <<>>
    ELSE IF Head(coll)._id \in ids THEN Without(Tail(coll), ids)
    ELSE <<Head(coll)>> \o Without(Tail(coll), ids)

\* User.deleteMany({ _id: { $in: ids } })
UserDeleteMany(ids) ==
    IF \E i \in 1..Len(ids) : ~WellFormed(ids[i])
    THEN [ok |-> FALSE, err |-> CastFailed, coll |-> users]
    ELSE LET set == {ids[i] : i \in 1..Len(ids)}
             kept == Without(users, set)
         IN  [ok |-> TRUE, deletedCount |-> Len(users) - Len(kept), coll |-> kept]

----------------------------------------------------------------------------
(* Requests, responses and a request's position in its handler *)

Request(method, path, authorization, body) ==
    [method |-> method, path |-> path, authorization |-> authorization, body |-> body]

Idle == [pc |-> "idle"]

\* the request received at time `at`, its handler suspended at `await call`
Pending(req, at, handler, user, call, tmp) ==
    [pc |-> call, req |-> req, at |-> at, handler |-> handler, user |-> user,
     tmp |-> tmp]

\* the request received at time `at`, and the response sent
Done(req, at, handler, user, res) ==
    [pc |-> "done", req |-> req, at |-> at, handler |-> handler, user |-> user,
     status |-> res.status, body |-> res.body]

\* a call on a collection, and whether the gate had set req.user for its request
NoOp == [coll |-> "none", op |-> "none", gate |-> "none"]
Op(coll, op, user) ==
    [coll |-> coll, op |-> op,
     gate |-> IF user = Undefined THEN "unauthenticated" ELSE "authenticated"]

\* admin.toObject() without its password field
StripPassword(doc) == [k \in DOMAIN doc \ {"password"} |-> doc[k]]

\* what a step of a handler does: the collections after it, the store call
\* it made, the ids of the documents that call updated or deleted, the
\* failure passed to next(), and either the responses it sends or the call
\* it awaits next
Outcome(adm, usr, op, sent, await) ==
    [admins |-> adm, users |-> usr, op |-> op, sent |-> sent, await |-> await,
     touched |-> {}, raised |-> <<>>]

Touching(out, ids) == [out EXCEPT !.touched = ids]

\* the Error Translator answering a failure a second time
CaughtTwice(adm, usr, op, err) ==
    [Outcome(adm, usr, op, <<errorHandler(err), errorHandler(err)>>, <<>>)
        EXCEPT !.raised = <<err>>]

\* .catch(next): the failure reaches the Error Translator, which answers
Caught(adm, usr, op, err) ==
    [Outcome(adm, usr, op, <<errorHandler(err)>>, <<>>) EXCEPT !.raised = <<err>>]

Respond(res) == Outcome(admins, users, NoOp, <<res>>, <<>>)
Fail(err) == Caught(admins, users, NoOp, err)
Await(call, tmp) == Outcome(admins, users, NoOp, <<>>, <<[call |-> call, tmp |-> tmp]>>)

----------------------------------------------------------------------------
(* routes/Auth.js *)

\* POST /register, up to its first await
registerStart(req) == Await("bcrypt.hash", Undefined)

\* POST /register after bcrypt.hash(req.body.password, 12)
registerHashed(req) ==
    IF HashRejects(req.body.password) THEN Fail(HashArguments)
    ELSE Await("Admin.create", Hash(req.body.password))

\* the response of POST /register with the created document sent whole
registerResponseWhole(admin, token) ==
    Send(201, [success |-> TRUE, data |-> admin, token |-> token])

\* the response of POST /register
registerResponse(admin, token) ==
    Send(201, [success |-> TRUE, data |-> StripPassword(admin), token |-> token])

\* POST /register after Admin.create
registerCreated(req, user, hashedPassword) ==
    LET r == AdminCreate(req.body, hashedPassword)
    IN  IF ~r.ok
        THEN Caught(r.coll, users, Op("admins", "create", user), r.err)
        ELSE Outcome(r.coll, users, Op("admins", "create", user),
                     <<registerResponse(r.doc, Sign(r.doc._id, JWT_SECRET))>>, <<>>)

InvalidLogin == Send(401, [success |-> FALSE, message |-> "Invalid Email or Password"])

\* POST /login going to the lookup without the check of its fields
loginStartUnchecked(req) == Await("Admin.findOne", Undefined)

\* POST /login, up to its first await
loginStart(req) ==
    IF Falsy(req.body.email) \/ Falsy(req.body.password)
    THEN Respond(Send(400, [success |-> FALSE,
                            message |-> "Email and Password are required"]))
    ELSE Await("Admin.findOne", Undefined)

\* POST /login after Admin.findOne({ email })
loginFound(req, user) ==
    LET admin == AdminFindOne(req.body.email)
    IN  IF admin = <<>>
        THEN Outcome(admins, users, Op("admins", "findOne", user), <<InvalidLogin>>, <<>>)
        ELSE Outcome(admins, users, Op("admins", "findOne", user), <<>>,
                     <<[call |-> "bcrypt.compare", tmp |-> admin[1]]>>)

\* POST /login after bcrypt.compare(password, admin.password)
loginCompared(req, admin) ==
    IF CompareRejects(req.body.password) THEN Fail(CompareArguments)
    ELSE IF ~Compare(req.body.password, admin.password) THEN Respond(InvalidLogin)
    ELSE Respond(Send(200, [success |-> TRUE,
                            message |-> "Login Successful",
                            data |-> StripPassword(admin),
                            token |-> Sign(admin._id, JWT_SECRET)]))

----------------------------------------------------------------------------
(* More of the store: the calls of the bulk, search and page routes *)

RECURSIVE InsertOrdered(_, _, _)
\* the ordered insert of insertMany: stops at the first duplicate key
InsertOrdered(coll, docs, done) ==
    IF docs = <<>> THEN [ok |-> TRUE, docs |-> done, coll |-> coll]
    ELSE IF WithEmail(coll, Head(docs).email) # {}
    THEN [ok |-> FALSE, err |-> DuplicateKey, coll |-> coll]
    ELSE InsertOrdered(Append(coll, Head(docs)), Tail(docs), Append(done, Head(docs)))

\* User.insertMany(req.body): every document is validated before any is sent
UserInsertMany(items) ==
    LET docs == [i \in 1..Len(items) |->
                    [_id |-> IdOf[nextId + i],
                     name |-> CastName(items[i].name),
                     email |-> CastEmail(items[i].email)]]
    IN  IF \E i \in 1..Len(docs) : ~(Required(docs[i].name) /\ Required(docs[i].email))
        THEN [ok |-> FALSE, err |-> ValidationFailed, coll |-> users]
        ELSE InsertOrdered(users, docs, <<>>)

RECURSIVE BulkWrite(_, _, _)
\* User.bulkWrite(operations): each updateOne in order; counts the documents changed
BulkWrite(coll, operations, modified) ==
    IF operations = <<>> THEN [ok |-> TRUE, modifiedCount |-> modified, coll |-> coll]
    ELSE LET o == Head(operations)
             hits == WithId(coll, o.filter)
         IN  IF ~WellFormed(o.filter) THEN [ok |-> FALSE, err |-> CastFailed, coll |-> coll]
             ELSE IF hits = {} THEN BulkWrite(coll, Tail(operations), modified)
             ELSE LET i == CHOOSE i \in hits : TRUE
                      doc == ApplySet(coll[i], o.update)
                  IN  IF WithEmail(coll, doc.email) \ {i} # {}
                      THEN [ok |-> FALSE, err |-> DuplicateKey, coll |-> coll]
                      ELSE BulkWrite([coll EXCEPT ![i] = doc], Tail(operations),
                                     IF doc = coll[i] THEN modified ELSE modified + 1)

\* the characters of a path segment used as a search key
KeyChars(key) ==
    CASE key = "a" -> <<"a">>
      [] key = "AN" -> <<"A", "N">>
      [] key = "@x" -> <<"@", "x">>
      [] key = "." -> <<".">>
      [] key = "(" -> <<"(">>
      [] OTHER -> <<"z">>

RegexFailed == Err("Regular expression is invalid", 0)

\* the pattern does not compile: a group is opened and never closed
RegexInvalid(pattern) ==
    Cardinality({i \in 1..Len(pattern) : pattern[i] = "("})
        # Cardinality({i \in 1..Len(pattern) : pattern[i] = ")"})

\* { $regex: pattern, $options: "i" } on the string s: the pattern matches
\* somewhere in s, a "." of the pattern matching any character
RegexTest(s, pattern) ==
    \E i \in 1..(Len(s) - Len(pattern) + 1) :
        \A j \in 1..Len(pattern) :
            \/ pattern[j] = "."
            \/ LowerChar(s[i + j - 1]) = LowerChar(pattern[j])

RECURSIVE Filter(_, _)
Filter(coll, pattern) ==
    IF coll = <<>> THEN <<>>
    ELSE IF RegexTest(Head(coll).name.v, pattern)
            \/ RegexTest(Head(coll).email.v, pattern)
    THEN <<Head(coll)>> \o Filter(Tail(coll), pattern)
    ELSE Filter(Tail(coll), pattern)

\* User.find({ $or: [{ name: regex }, { email: regex }] })
UserSearch(key) ==
    IF RegexInvalid(KeyChars(key)) THEN [ok |-> FALSE, err |-> RegexFailed]
    ELSE [ok |-> TRUE, found |-> Filter(users, KeyChars(key))]

\* User.find().skip(startIndex).limit(limit)
UserPage(startIndex, limit) ==
    SubSeq(users, startIndex + 1,
           IF startIndex + limit < Len(users) THEN startIndex + limit ELSE Len(users))

----------------------------------------------------------------------------
(* The user routes *)

NotFound == Err("User not found", 404)

\* a store call that failed: the error goes to the Error Translator
Thrown(err, op) == Caught(admins, users, op, err)

\* POST /users after User.create(req.body)
createUserCreated(req, user) ==
    LET r == UserCreate(req.body)
        op == Op("users", "create", user)
    IN  IF ~r.ok THEN Thrown(r.err, op)
        ELSE Outcome(admins, r.coll, op,
                     <<Send(201, [success |-> TRUE, data |-> r.doc])>>, <<>>)

\* POST /users/bulk after User.insertMany(req.body)
createBulkInserted(req, user) ==
    LET r == UserInsertMany(req.body.items)
        op == Op("users", "insertMany", user)
    IN  IF ~r.ok THEN Caught(admins, r.coll, op, r.err)
        ELSE Outcome(admins, r.coll, op,
                     <<Send(201, [success |-> TRUE, count |-> Len(r.docs),
                                  data |-> r.docs])>>, <<>>)

\* GET /users emptying the collection it lists
listUsersDraining(req, user) ==
    Outcome(admins, <<>>, Op("users", "find", user),
            <<Send(200, [success |-> TRUE, count |-> Len(users), data |-> users])>>, <<>>)

\* GET /users after User.find()
listUsersFound(req, user) ==
    Outcome(admins, users, Op("users", "find", user),
            <<Send(200, [success |-> TRUE, count |-> Len(users), data |-> users])>>, <<>>)

\* GET /users/:id after User.findById(req.params.id)
getUserFound(req, user, id) ==
    LET r == UserFindById(id)
        op == Op("users", "findById", user)
    IN  IF ~r.ok THEN Thrown(r.err, op)
        ELSE IF r.found = <<>> THEN Thrown(NotFound, op)
        ELSE Outcome(admins, users, op,
                     <<Send(200, [success |-> TRUE, data |-> r.found[1]])>>, <<>>)

\* PUT /users/:id after User.findByIdAndUpdate(req.params.id, req.body, ...)
updateUserUpdated(req, user, id) ==
    LET r == UserFindByIdAndUpdate(id, req.body)
        op == Op("users", "findByIdAndUpdate", user)
    IN  IF ~r.ok THEN Thrown(r.err, op)
        ELSE IF r.found = <<>> THEN Thrown(NotFound, op)
        ELSE Touching(Outcome(admins, r.coll, op,
                              <<Send(200, [success |-> TRUE, data |-> r.found[1]])>>,
                              <<>>),
                      {id})

\* PUT /users/bulk, up to its await: req.body.map(...)
updateBulkStart(req) ==
    Await("User.bulkWrite",
          [i \in 1..Len(req.body.items) |->
              [filter |-> req.body.items[i].id, update |-> req.body.items[i].data]])

\* PUT /users/bulk after User.bulkWrite(operations)
updateBulkWritten(req, user, operations) ==
    LET r == BulkWrite(users, operations, 0)
        op == Op("users", "bulkWrite", user)
    IN  IF ~r.ok THEN Thrown(r.err, op)
        ELSE Touching(Outcome(admins, r.coll, op,
                              <<Send(200, [success |-> TRUE,
                                           modified |-> r.modifiedCount])>>, <<>>),
                      {operations[i].filter : i \in 1..Len(operations)})

\* DELETE /users/:id: the model has no deleteById, so the call throws
deleteUserStart(req) == Fail(NotAFunction)

\* DELETE /users/bulk after User.deleteMany({ _id: { $in: req.body.ids } })
deleteBulkDeleted(req, user) ==
    LET r == UserDeleteMany(req.body.ids)
        op == Op("users", "deleteMany", user)
    IN  IF ~r.ok THEN Thrown(r.err, op)
        ELSE Touching(Outcome(admins, r.coll, op,
                              <<Send(200, [success |-> TRUE,
                                           deleted |-> r.deletedCount])>>, <<>>),
                      {req.body.ids[i] : i \in 1..Len(req.body.ids)})

\* GET /search/:key after User.find({ $or: ... })
searchFound(req, user, key) ==
    LET r == UserSearch(key)
        op == Op("users", "find", user)
    IN  IF ~r.ok THEN Thrown(r.err, op)
        ELSE Outcome(admins, users, op,
                     <<Send(200, [success |-> TRUE, count |-> Len(r.found),
                                  data |-> r.found])>>, <<>>)

\* a decimal string of the request as a number (page - 1, .limit(limit))
ToNumber(digits) ==
    CASE digits = "1" -> 1
      [] digits = "2" -> 2
      [] digits = "3" -> 3
      [] digits = "4" -> 4

\* methods of the array a find() query resolves to, among those the handlers name
ArrayMethods == {"map"}

\* GET /users/page/:page after User.find().skip(startIndex).limit(limit):
\* the array it returns has no countDocuments, so the next line throws
paginateFound(req, user, page) ==
    LET limit == ToNumber(req.body.limit)
        startIndex == (ToNumber(page) - 1) * limit
        found == UserPage(startIndex, limit)
    IN  IF "countDocuments" \notin ArrayMethods
        THEN Thrown(NotAFunction, Op("users", "find", user))
        ELSE Outcome(admins, users, Op("users", "find", user),
                     <<Send(200, [success |-> TRUE, data |-> found])>>, <<>>)

----------------------------------------------------------------------------
(* The event loop: a request is received, an awaited call returns *)

Connections == {"c1", "c2"}

\* the handler of a route, from its start to its first await
Start(handler, req) ==
    CASE handler = "register"   -> registerStart(req)
      [] handler = "login"      -> loginStart(req)
      [] handler = "createUser" -> Await("User.create", Undefined)
      [] handler = "createBulk" -> Await("User.insertMany", Undefined)
      [] handler = "listUsers"  -> Await("User.find", Undefined)
      [] handler = "getUser"    -> Await("User.findById", Undefined)
      [] handler = "updateUser" -> Await("User.findByIdAndUpdate", Undefined)
      [] handler = "updateBulk" -> updateBulkStart(req)
      [] handler = "deleteUser" -> deleteUserStart(req)
      [] handler = "deleteBulk" -> Await("User.deleteMany", Undefined)
      [] handler = "search"     -> Await("User.find", Undefined)
      [] handler = "paginate"   -> Await("User.find", Undefined)

\* the handler suspended in f, from the return of its awaited call on
Continue(f) ==
    LET route == Routes[MatchRoute(f.req.method, f.req.path)]
    IN  CASE f.pc = "bcrypt.hash"       -> registerHashed(f.req)
          [] f.pc = "Admin.create"      -> registerCreated(f.req, f.user, f.tmp)
          [] f.pc = "Admin.findOne"     -> loginFound(f.req, f.user)
          [] f.pc = "bcrypt.compare"    -> loginCompared(f.req, f.tmp)
          [] f.handler = "createUser"   -> createUserCreated(f.req, f.user)
          [] f.handler = "createBulk"   -> createBulkInserted(f.req, f.user)
          [] f.handler = "listUsers"    -> listUsersFound(f.req, f.user)
          [] f.handler = "getUser"      ->
                getUserFound(f.req, f.user, Param(route, f.req.path, ":id"))
          [] f.handler = "updateUser"   ->
                updateUserUpdated(f.req, f.user, Param(route, f.req.path, ":id"))
          [] f.handler = "updateBulk"   -> updateBulkWritten(f.req, f.user, f.tmp)
          [] f.handler = "deleteBulk"   -> deleteBulkDeleted(f.req, f.user)
          [] f.handler = "search"       ->
                searchFound(f.req, f.user, Param(route, f.req.path, ":key"))
          [] f.handler = "paginate"     ->
                paginateFound(f.req, f.user, Param(route, f.req.path, ":page"))

Grown(before, after) == IF Len(after) > Len(before) THEN Len(after) - Len(before) ELSE 0

\* the history of POST /users after a step: the document a 201 returns is
\* added, the documents an update or a delete reached are dropped
Remember(handler, out) ==
    {d \in created : d._id \notin out.touched}
        \cup (IF handler = "createUser" /\ out.sent # <<>> /\ out.sent[1].status = 201
              THEN {out.sent[1].body.data}
              ELSE {})

\* the state after a step of the handler of connection s
Apply(s, req, at, handler, user, out) ==
    /\ admins' = out.admins
    /\ users' = out.users
    /\ nextId' = nextId + Grown(admins, out.admins) + Grown(users, out.users)
    /\ storeOp' = IF out.op = NoOp THEN storeOp ELSE out.op
    /\ inflight' = [inflight EXCEPT ![s] =
            IF out.sent # <<>>
            THEN Done(req, at, handler, user, out.sent[1])
            ELSE Pending(req, at, handler, user, out.await[1].call, out.await[1].tmp)]
    /\ wallet' = IF out.sent # <<>> /\ "token" \in DOMAIN out.sent[1].body
                 THEN <<out.sent[1].body.token>>
                 ELSE wallet
    /\ created' = Remember(handler, out)
    /\ registered' = registered \cup
            (IF handler = "register" /\ out.sent # <<>> /\ out.sent[1].status = 201
             THEN {[email |-> req.body.email, password |-> req.body.password]}
             ELSE {})
    /\ raised' = [raised EXCEPT ![s] = out.raised]
    /\ responses' = [responses EXCEPT ![s] =
            (IF inflight[s].pc \in {"idle", "done"} THEN 0 ELSE @) + Len(out.sent)]
    /\ UNCHANGED now

\* the documents the requests in flight may still insert
Inserting(handlers) ==
    Cardinality({t \in Connections : inflight[t].pc \notin {"idle", "done"}
                                     /\ inflight[t].handler \in handlers})

\* the collections are bounded: a request that may insert is received only
\* while there is room for its documents
Room(handler) ==
    /\ handler = "register" => Len(admins) + Inserting({"register"}) < MaxAdmins
    /\ handler \in {"createUser", "createBulk"} =>
          Len(users) + Inserting({"createUser", "createBulk"}) < MaxUsers
    /\ nextId + Inserting({"register", "createUser", "createBulk"}) < Len(IdOf)

\* a request arrives on connection s: routing, the gate and the handler up
\* to its first await run without interruption
Receive(s, req) ==
    /\ inflight[s].pc \in {"idle", "done"}
    /\ MatchRoute(req.method, req.path) # 0
    /\ LET route == Routes[MatchRoute(req.method, req.path)]
           gate == IF route.gated THEN authenticate(req)
                   ELSE [ok |-> TRUE, user |-> Undefined]
       IN  /\ Room(route.handler)
           /\ IF gate.ok
              THEN Apply(s, req, now, route.handler, gate.user, Start(route.handler, req))
              ELSE Apply(s, req, now, route.handler, Undefined, Fail(gate.err))

\* the call awaited on connection s returns and the handler runs on
Resume(s) ==
    /\ inflight[s].pc \notin {"idle", "done"}
    /\ Apply(s, inflight[s].req, inflight[s].at, inflight[s].handler, inflight[s].user,
             Continue(inflight[s]))

\* time passes
Tick ==
    /\ now + ExpiresIn \div 2 <= MaxTime
    /\ now' = now + ExpiresIn \div 2
    /\ UNCHANGED <<admins, users, nextId, wallet, inflight, storeOp, created, registered,
                   raised, responses>>

----------------------------------------------------------------------------
(* What clients send *)

Ann == Str(<<"A", "n", "n">>)
SpaceAnn == Str(<<" ", "A", "n", "n">>)
Bob == Str(<<"B", "o", "b">>)
Empty == Str(<<>>)
MailA == Str(<<"a", "@", "x">>)
MailAUpper == Str(<<"A", "@", "x">>)
MailB == Str(<<"b", "@", "x">>)
Secret1 == Str(<<"s", "1">>)
Secret2 == Str(<<"s", "2">>)
Number7 == Num(<<"7">>)

\* a token signed with another key, and a token with its expiry pushed back
Forged ==
    LET payload == [id |-> IdOf[1], iat |-> 0, exp |-> ExpiresIn + MaxTime + 1]
    IN  [payload |-> payload, sig |-> Signature(payload, "another-key")]
Tampered(token) == [token EXCEPT !.payload.exp = @ + ExpiresIn]

\* the Authorization headers a client may send
Headers ==
    {NoHeader, SchemeOnly, Bearer(Forged)}
        \cup {Bearer(wallet[i]) : i \in 1..Len(wallet)}
        \cup {Bearer(Tampered(wallet[i])) : i \in 1..Len(wallet)}

\* the header of a client that sends the token it holds
Held == {Bearer(wallet[i]) : i \in 1..Len(wallet)}

UserIds == {users[i]._id : i \in 1..Len(users)} \cup {AbsentId}

Nothing == [none |-> TRUE]

\* one request for every route of the API
EveryRoute(h) ==
    {Request("POST", <<"users">>, h, [name |-> Ann, email |-> MailA]),
     Request("POST", <<"users", "bulk">>, h, [items |-> <<[name |-> Bob, email |-> MailB]>>]),
     Request("GET", <<"users">>, h, Nothing),
     Request("GET", <<"users", IdOf[2]>>, h, Nothing),
     Request("PUT", <<"users", IdOf[2]>>, h, [name |-> Bob, email |-> Undefined]),
     Request("DELETE", <<"users", IdOf[2]>>, h, Nothing),
     Request("GET", <<"search", "a">>, h, Nothing),
     Request("GET", <<"users", "page", "1">>, h, Nothing),
     Request("DELETE", <<"users", "bulk">>, h, [ids |-> <<IdOf[2]>>]),
     Request("PUT", <<"users", "bulk">>, h,
             [items |-> <<[id |-> IdOf[2], data |-> [name |-> Bob, email |-> Undefined]]>>]),
     Request("POST", <<"register">>, h, [name |-> Ann, email |-> MailA, password |-> Secret1]),
     Request("POST", <<"login">>, h, [email |-> MailA, password |-> Secret1])}

----------------------------------------------------------------------------
(* The API under clients that send every route with every kind of header *)

Init ==
    /\ admins = <<>>
    /\ users = <<>>
    /\ nextId = 0
    /\ now = 0
    /\ wallet = <<>>
    /\ inflight = [s \in Connections |-> Idle]
    /\ storeOp = NoOp
    /\ created = {}
    /\ registered = {}
    /\ raised = [s \in Connections |-> <<>>]
    /\ responses = [s \in Connections |-> 0]

\* one client, one request at a time
Next ==
    \/ \E h \in Headers : \E req \in EveryRoute(h) : Receive("c1", req)
    \/ Resume("c1")
    \/ Tick

Spec == Init /\ [][Next]_vars

\* every route, from a client that sends the token it holds or none, where
\* every awaited call eventually returns or fails
NextLive ==
    \/ \E h \in Held \cup {NoHeader} : \E req \in EveryRoute(h) : Receive("c1", req)
    \/ Resume("c1")

SpecLive == Init /\ [][NextLive]_vars /\ WF_vars(Resume("c1"))

----------------------------------------------------------------------------
(* The credential routes under a client that registers and logs in with    *)
(* every kind of body, and then calls a protected route                    *)

Register(name, email, password) ==
    Request("POST", <<"register">>, NoHeader,
            [name |-> name, email |-> email, password |-> password])

Login(email, password) ==
    Request("POST", <<"login">>, NoHeader, [email |-> email, password |-> password])

Registrations ==
    {Register(Ann, e, p) : e \in {MailA, MailAUpper, MailB}, p \in {Secret1, Empty}}
        \cup {Register(Undefined, MailA, Secret1), Register(Ann, Undefined, Secret1),
              Register(Ann, MailA, Undefined), Register(Ann, MailA, Number7)}

Logins ==
    {Login(e, p) : e \in {MailA, MailAUpper, MailB},
                   p \in {Secret1, Secret2, Empty, Number7}}
        \cup {Login(Undefined, Secret1), Login(MailA, Undefined)}

Probes == {Request("GET", <<"users">>, h, Nothing) : h \in Headers}

NextAuth ==
    \/ \E req \in Registrations \cup Logins \cup Probes : Receive("c1", req)
    \/ Resume("c1")
    \/ Tick

SpecAuth == Init /\ [][NextAuth]_vars

----------------------------------------------------------------------------
(* The user routes under a client that holds the token of a registered     *)
(* admin                                                                   *)

FirstAdmin ==
    [_id |-> IdOf[1], name |-> Ann, email |-> MailA, password |-> Hash(Secret1)]

\* the state once POST /register has answered the first registration
InitUsers ==
    /\ admins = <<FirstAdmin>>
    /\ users = <<>>
    /\ nextId = 1
    /\ now = 0
    /\ wallet = <<Sign(IdOf[1], JWT_SECRET)>>
    /\ inflight = [s \in Connections |->
                      IF s = "c1"
                      THEN Done(Register(Ann, MailA, Secret1), now, "register", Undefined,
                                registerResponse(FirstAdmin, Sign(IdOf[1], JWT_SECRET)))
                      ELSE Idle]
    /\ storeOp = Op("admins", "create", Undefined)
    /\ created = {}
    /\ registered = {[email |-> MailA, password |-> Secret1]}
    /\ raised = [s \in Connections |-> <<>>]
    /\ responses = [s \in Connections |-> IF s = "c1" THEN 1 ELSE 0]

UserBodies ==
    {[name |-> Ann, email |-> MailA], [name |-> SpaceAnn, email |-> MailAUpper],
     [name |-> Bob, email |-> MailB], [name |-> Undefined, email |-> MailB],
     [name |-> Ann, email |-> Undefined], [name |-> Empty, email |-> MailB]}

Updates ==
    {[name |-> Bob, email |-> Undefined], [name |-> Undefined, email |-> MailB],
     [name |-> Empty, email |-> Undefined]}

IdLists == {<<>>, <<IdOf[2]>>, <<IdOf[2], IdOf[3]>>, <<AbsentId>>}

\* req.query of GET /users/page/:page?limit=N, carried in the slot of the
\* body, which a GET request leaves empty
Query(limit) == [limit |-> limit]
Pages == {"1", "2"}
Limits == {"1", "2"}

\* the keys of GET /search/:key
Keys == {"a", "AN", "@x", "z", ".", "("}

\* bodies of PUT /users/bulk: arrays of { id, data }
BulkUpdates ==
    {<<>>,
     <<[id |-> IdOf[2], data |-> [name |-> Bob, email |-> Undefined]]>>,
     <<[id |-> IdOf[2], data |-> [name |-> Undefined, email |-> MailB]],
       [id |-> AbsentId, data |-> [name |-> Bob, email |-> Undefined]]>>}

UserRequests(h) ==
    {Request("POST", <<"users">>, h, b) : b \in UserBodies}
        \cup {Request("GET", <<"users", id>>, h, Nothing) : id \in UserIds \cup {"bulk"}}
        \cup {Request("PUT", <<"users", id>>, h, u) : id \in UserIds, u \in Updates}
        \cup {Request("DELETE", <<"users", id>>, h, Nothing) : id \in UserIds}
        \cup {Request("DELETE", <<"users", "bulk">>, h, [ids |-> l]) : l \in IdLists}
        \cup {Request("PUT", <<"users", "bulk">>, h, [items |-> l]) : l \in BulkUpdates}
        \cup {Request("GET", <<"users", "page", p>>, h, Query(n)) : p \in Pages, n \in Limits}
        \cup {Request("GET", <<"search", k>>, h, Nothing) : k \in Keys}

NextUsers ==
    \/ \E h \in Held : \E req \in UserRequests(h) : Receive("c1", req)
    \/ Resume("c1")

SpecUsers == InitUsers /\ [][NextUsers]_vars

----------------------------------------------------------------------------
(* Two clients at once: their requests interleave at the await points *)

Concurrent(h) ==
    {Register(Ann, MailA, Secret1), Register(Bob, MailAUpper, Secret2),
     Login(MailA, Secret1),
     Request("POST", <<"users">>, h, [name |-> Ann, email |-> MailA]),
     Request("GET", <<"users">>, h, Nothing)}

NextConcurrent ==
    \/ \E s \in Connections : \E h \in Held \cup {NoHeader} :
          \E req \in Concurrent(h) : Receive(s, req)
    \/ \E s \in Connections : Resume(s)

SpecConcurrent == Init /\ [][NextConcurrent]_vars

----------------------------------------------------------------------------
(* Vocabulary of the properties *)

Gated(req) == Routes[MatchRoute(req.method, req.path)].gated

Answered(s) == inflight[s].pc = "done"

\* connection s gets its response in this step
Answers(s) == inflight'[s].pc = "done" /\ inflight'[s] # inflight[s]

\* the gate had set req.user when the handler of f ran
Authenticated(f) == f.user # Undefined

SentToken(req) == HeaderToken(req.authorization)

ExpiredAt(token, clock) == clock >= token.payload.iat + ExpiresIn

BadSignature(token) == token.sig # Signature(token.payload, JWT_SECRET)

IdsOf(coll) == {coll[i]._id : i \in 1..Len(coll)}

----------------------------------------------------------------------------
(* C1: on every protected route, a request without an Authorization header *)
(* is answered 401 "Authentication required", and a request whose token is *)
(* expired or carries a bad signature is answered 401 with the error of    *)
(* the failed verification.                                                *)

C1_GateRejects ==
    \A s \in Connections :
        LET f == inflight[s]
        IN  Answered(s) /\ Gated(f.req) =>
              /\ ~f.req.authorization.present =>
                    /\ f.status = 401
                    /\ f.body = [success |-> FALSE, error |-> "Authentication required"]
              /\ \A i \in 1..Len(SentToken(f.req)) :
                    LET token == SentToken(f.req)[i]
                    IN  /\ BadSignature(token) =>
                              /\ f.status = 401
                              /\ f.body = [success |-> FALSE, error |-> "invalid signature"]
                        /\ ~BadSignature(token) /\ ExpiredAt(token, f.at) =>
                              /\ f.status = 401
                              /\ f.body = [success |-> FALSE, error |-> "jwt expired"]

\* a shadowed route answers an expired token, another a missing header
C1_Witness ==
    /\ now = MaxTime
    /\ \E s \in Connections :
          /\ Answered(s)
          /\ inflight[s].req.method = "DELETE"
          /\ inflight[s].req.path = <<"users", "bulk">>
          /\ SentToken(inflight[s].req) # <<>>
          /\ ~BadSignature(SentToken(inflight[s].req)[1])
          /\ ExpiredAt(SentToken(inflight[s].req)[1], inflight[s].at)
          /\ inflight[s].status = 401

----------------------------------------------------------------------------
(* C2: no call is made on the user collection for a request unless the     *)
(* gate has set req.user for it, and only the register and login handlers  *)
(* run for a request the gate has not authenticated.                       *)

C2_StoreBehindGate ==
    /\ storeOp.coll = "users" => storeOp.gate = "authenticated"
    /\ \A s \in Connections :
          inflight[s].pc \notin {"idle", "done"} /\ ~Authenticated(inflight[s])
              => inflight[s].handler \in {"register", "login"}

\* a document was inserted in the user collection for an authenticated request
C2_Witness ==
    /\ storeOp = [coll |-> "users", op |-> "create", gate |-> "authenticated"]
    /\ Len(users) = 1

----------------------------------------------------------------------------
(* C3: once a registration with email e and password p has succeeded, a    *)
(* login with the same e and p is answered 200 with success: true and a    *)
(* token, and the token the client received, sent as a Bearer token less   *)
(* than 24 hours after it was issued, passes the gate of a protected route.*)

LoginOf(f) == [email |-> f.req.body.email, password |-> f.req.body.password]

C3_RoundTrip ==
    [][\A s \in Connections :
          /\ (Answers(s) /\ inflight'[s].handler = "login"
                         /\ LoginOf(inflight'[s]) \in registered)
                => /\ inflight'[s].status = 200
                   /\ inflight'[s].body.success = TRUE
                   /\ "token" \in DOMAIN inflight'[s].body
          /\ (inflight'[s] # inflight[s] /\ inflight'[s].pc # "idle"
                /\ inflight'[s].at = now /\ Gated(inflight'[s].req)
                /\ wallet # <<>> /\ SentToken(inflight'[s].req) = wallet
                /\ now < wallet[1].payload.iat + ExpiresIn)
                => inflight'[s].user = wallet[1].payload
      ]_vars

----------------------------------------------------------------------------
(* C4: a login with both fields present that fails, because the email      *)
(* matches no admin or because the password is not that admin's, is        *)
(* answered 401 with one and the same body.                                *)

GoodCredentials(body) ==
    /\ IsString(body.password)
    /\ \E i \in 1..Len(admins) :
          /\ admins[i].email = CastEmail(body.email)
          /\ admins[i].password = Hash(body.password)

C4_LoginFailuresAlike ==
    [][\A s \in Connections :
          (Answers(s) /\ inflight'[s].handler = "login"
                      /\ ~Falsy(inflight'[s].req.body.email)
                      /\ ~Falsy(inflight'[s].req.body.password)
                      /\ ~GoodCredentials(inflight'[s].req.body))
             => /\ inflight'[s].status = 401
                /\ inflight'[s].body =
                      [success |-> FALSE, message |-> "Invalid Email or Password"]
      ]_vars

----------------------------------------------------------------------------
(* C5: a registration whose email an admin already has is answered with    *)
(* success: false, status 409 or 400 and no token, and no two admins ever  *)
(* have the same email.                                                    *)

EmailTaken(body) == \E i \in 1..Len(admins) : admins[i].email = CastEmail(body.email)

C5_DuplicateRegistration ==
    /\ [][\A s \in Connections :
            (Answers(s) /\ inflight'[s].handler = "register"
                        /\ EmailTaken(inflight'[s].req.body))
               => /\ inflight'[s].body.success = FALSE
                  /\ inflight'[s].status \in {400, 409}
                  /\ "token" \notin DOMAIN inflight'[s].body
        ]_vars
    /\ [](\A i, j \in 1..Len(admins) : admins[i].email = admins[j].email => i = j)

----------------------------------------------------------------------------
(* C6: every stored admin's password is the bcrypt digest of the password  *)
(* a registration submitted, never that password itself, and no response   *)
(* of register or login carries a password field.                          *)

C6_PasswordNeverExposed ==
    /\ \A i \in 1..Len(admins) :
          /\ admins[i].password.t = "bcrypt"
          /\ \E r \in registered :
                /\ admins[i].email = CastEmail(r.email)
                /\ admins[i].password = Hash(r.password)
                /\ admins[i].password # r.password
    /\ \A s \in Connections :
          Answered(s) /\ inflight[s].handler \in {"register", "login"} =>
             /\ "password" \notin DOMAIN inflight[s].body
             /\ "data" \in DOMAIN inflight[s].body =>
                   "password" \notin DOMAIN inflight[s].body.data

\* a login has answered 200 with the admin's record, after a registration
C6_Witness ==
    /\ admins # <<>>
    /\ \E s \in Connections :
          /\ Answered(s)
          /\ inflight[s].handler = "login"
          /\ inflight[s].status = 200
          /\ inflight[s].body.data._id = admins[1]._id

----------------------------------------------------------------------------
(* C7: an authenticated DELETE /users/:id of an existing id is answered    *)
(* 200 and removes the record, and an authenticated GET /users/:id of an   *)
(* id that names no record is answered 404.                                *)

IsUserPath(req) == Len(req.path) = 2 /\ req.path[1] = "users"

C7_DeleteThenRead ==
    [][\A s \in Connections :
          LET f == inflight'[s]
          IN  /\ (Answers(s) /\ f.req.method = "DELETE" /\ IsUserPath(f.req)
                             /\ f.req.path[2] \in IdsOf(users) /\ Authenticated(f))
                    => /\ f.status = 200
                       /\ f.req.path[2] \notin IdsOf(users')
              /\ (Answers(s) /\ f.req.method = "GET" /\ IsUserPath(f.req)
                             /\ WellFormed(f.req.path[2])
                             /\ f.req.path[2] \notin IdsOf(users) /\ Authenticated(f))
                    => f.status = 404
      ]_vars

----------------------------------------------------------------------------
(* C8: an authenticated DELETE /users/bulk with body {ids} is answered 200 *)
(* with deleted: the number of the ids that exist, and removes them; so a  *)
(* repeated call is answered 200 with deleted: 0.                          *)

C8_BulkDeleteIdempotent ==
    [][\A s \in Connections :
          LET f == inflight'[s]
              ids == {f.req.body.ids[i] : i \in 1..Len(f.req.body.ids)}
          IN  (Answers(s) /\ f.req.method = "DELETE" /\ f.req.path = <<"users", "bulk">>
                          /\ Authenticated(f))
                 => /\ f.status = 200
                    /\ f.body.success = TRUE
                    /\ f.body.deleted = Cardinality(ids \cap IdsOf(users))
                    /\ IdsOf(users') = IdsOf(users) \ ids
      ]_vars

----------------------------------------------------------------------------
(* C9: an authenticated POST /users with valid fields is answered 201 with *)
(* the record it inserted, and an authenticated GET /users/:id of the id   *)
(* it returned, with no update or delete of that id in between, is         *)
(* answered 200 with a record of the same name and email.                  *)

ValidFields(body) ==
    /\ Required(CastName(body.name))
    /\ Required(CastEmail(body.email))
    /\ WithEmail(users, CastEmail(body.email)) = {}

C9_CreateThenRead ==
    [][\A s \in Connections :
          LET f == inflight'[s]
          IN  /\ (Answers(s) /\ f.handler = "createUser" /\ Authenticated(f)
                             /\ ValidFields(f.req.body))
                    => /\ f.status = 201
                       /\ f.body.success = TRUE
                       /\ users' = Append(users, f.body.data)
              /\ (Answers(s) /\ f.handler = "getUser" /\ Authenticated(f))
                    => \A d \in created :
                          d._id = f.req.path[2] =>
                             /\ f.status = 200
                             /\ f.body.data.name = d.name
                             /\ f.body.data.email = d.email
      ]_vars

\* the second of two users was created and then read back
C9_Witness ==
    /\ Len(users) = 2
    /\ \E s \in Connections :
          /\ Answered(s)
          /\ inflight[s].handler = "getUser"
          /\ inflight[s].status = 200
          /\ inflight[s].body.data \in created
          /\ inflight[s].body.data._id = users[2]._id

----------------------------------------------------------------------------
(* C10: an authenticated POST /users whose body misses name or email, or   *)
(* whose email a user already has, is answered with status 400 or 409 and  *)
(* success: false, and leaves the user collection as it was.               *)

C10_InvalidCreateRejected ==
    [][\A s \in Connections :
          LET f == inflight'[s]
          IN  (Answers(s) /\ f.handler = "createUser" /\ Authenticated(f)
                          /\ (\/ f.req.body.name = Undefined
                              \/ f.req.body.email = Undefined
                              \/ WithEmail(users, CastEmail(f.req.body.email)) # {}))
                 => /\ f.status \in {400, 409}
                    /\ f.body.success = FALSE
                    /\ users' = users
      ]_vars

----------------------------------------------------------------------------
(* C11: an authenticated PUT /users/bulk whose body is an array of         *)
(* { id, data } pairs is answered 200 with the count of modified records,  *)
(* and afterwards each record whose id is in the array has the fields of   *)
(* its data set to the given values while every other record is unchanged. *)

IsBulkUpdate(req) == req.method = "PUT" /\ req.path = <<"users", "bulk">>

\* doc after the field sets that items addresses to it, in order
RECURSIVE SetAll(_, _)
SetAll(doc, items) ==
    IF items = <<>> THEN doc
    ELSE SetAll(IF Head(items).id = doc._id
                THEN [doc EXCEPT
                        !.name = IF Head(items).data.name = Undefined THEN @
                                 ELSE Head(items).data.name,
                        !.email = IF Head(items).data.email = Undefined THEN @
                                  ELSE Head(items).data.email]
                ELSE doc,
                Tail(items))

C11_BulkUpdate ==
    [][\A s \in Connections :
          LET f == inflight'[s]
          IN  Answers(s) /\ IsBulkUpdate(f.req) /\ Authenticated(f) =>
                /\ f.status = 200
                /\ f.body.success = TRUE
                /\ "modified" \in DOMAIN f.body
                /\ Len(users') = Len(users)
                /\ \A i \in 1..Len(users) :
                      users'[i] = SetAll(users[i], f.req.body.items)]_vars

----------------------------------------------------------------------------
(* C12: an authenticated GET /users/page/:page?limit=N with page >= 1 and  *)
(* N >= 1 is answered 200 with success true, and its data is the slice of  *)
(* at most N records starting at offset (page - 1) * N in the store's      *)
(* order.                                                                  *)

IsPage(req) ==
    /\ req.method = "GET"
    /\ Len(req.path) = 3
    /\ req.path[1] = "users"
    /\ req.path[2] = "page"

\* the records of coll at offsets first .. first + n - 1
Slice(coll, first, n) ==
    [i \in 1..(IF Len(coll) - first < 0 THEN 0
               ELSE IF Len(coll) - first < n THEN Len(coll) - first ELSE n) |->
        coll[first + i]]

C12_PageIsSlice ==
    [][\A s \in Connections :
          LET f == inflight'[s]
          IN  Answers(s) /\ IsPage(f.req) /\ Authenticated(f) =>
                /\ f.status = 200
                /\ f.body.success = TRUE
                /\ f.body.data =
                      Slice(users, (ToNumber(f.req.path[3]) - 1) * ToNumber(f.req.body.limit),
                            ToNumber(f.req.body.limit))]_vars

----------------------------------------------------------------------------
(* C13: for every key, an authenticated GET /search/:key is answered 200   *)
(* with success true, and its data is exactly the records whose name or    *)
(* email contains the key as a substring ignoring case; when no record     *)
(* matches, the count is 0 and the list is empty.                          *)

IsSearch(req) == req.method = "GET" /\ Len(req.path) = 2 /\ req.path[1] = "search"

\* s contains key as a substring, ignoring case
ContainsIgnoringCase(s, key) ==
    \E i \in 1..(Len(s) - Len(key) + 1) :
        toLowerCase(SubSeq(s, i, i + Len(key) - 1)) = toLowerCase(key)

Matching(coll, key) ==
    {coll[i] : i \in {k \in 1..Len(coll) :
                        \/ ContainsIgnoringCase(coll[k].name.v, key)
                        \/ ContainsIgnoringCase(coll[k].email.v, key)}}

C13_SearchIsSubstring ==
    [][\A s \in Connections :
          LET f == inflight'[s]
          IN  Answers(s) /\ IsSearch(f.req) /\ Authenticated(f) =>
                /\ f.status = 200
                /\ f.body.success = TRUE
                /\ {f.body.data[i] : i \in 1..Len(f.body.data)}
                      = Matching(users, KeyChars(f.req.path[2]))
                /\ f.body.count = Cardinality(Matching(users, KeyChars(f.req.path[2])))]_vars

----------------------------------------------------------------------------
(* C14: any failure raised by the gate or by a handler, thrown             *)
(* synchronously or by an awaited call, is rendered by the Error           *)
(* Translator as { success: false, error: message } with the status the    *)
(* failure carries, or 500 when it carries none.                           *)

C14_FailuresTranslated ==
    \A s \in Connections :
        raised[s] # <<>> =>
            LET err == raised[s][1]
                f == inflight[s]
            IN  /\ Answered(s)
                /\ f.body = [success |-> FALSE, error |-> err.message]
                /\ f.status = IF err.statusCode = 0 THEN 500 ELSE err.statusCode

\* a failure of an awaited store call that carries no status has been answered
C14_Witness ==
    \E s \in Connections :
        /\ raised[s] = <<DuplicateKey>>
        /\ Answered(s)
        /\ inflight[s].handler = "createUser"
        /\ inflight[s].status = 500

----------------------------------------------------------------------------
(* C15: every request to a defined route eventually receives exactly one   *)
(* response, provided every awaited call eventually returns or fails: no   *)
(* failure of the gate, of a handler or of a store call leaves a request   *)
(* unanswered or answers it twice.                                         *)

Waiting(s) == inflight[s].pc \notin {"idle", "done"}

C15_AnsweredExactlyOnce ==
    /\ [](\A s \in Connections :
            /\ responses[s] <= 1
            /\ Answered(s) <=> responses[s] = 1)
    /\ \A s \in Connections : Waiting(s) ~> Answered(s)

\* a request whose awaited store call failed has its one response
C15_Witness ==
    \E s \in Connections :
        /\ Answered(s)
        /\ responses[s] = 1
        /\ raised[s] = <<CastFailed>>
        /\ storeOp.op = "findByIdAndUpdate"

----------------------------------------------------------------------------
(* C16: for any id that resolves to no user record, an authenticated       *)
(* GET /users/:id and an authenticated PUT /users/:id are each answered    *)
(* 404 with success false, and the user collection is unchanged.           *)

IsReadOrUpdateOne(req) ==
    /\ req.method \in {"GET", "PUT"}
    /\ Len(req.path) = 2
    /\ req.path[1] = "users"

C16_MissingIdNotFound ==
    [][\A s \in Connections :
          LET f == inflight'[s]
          IN  Answers(s) /\ IsReadOrUpdateOne(f.req) /\ Authenticated(f)
              /\ f.req.path[2] \notin IdsOf(users) =>
                /\ f.status = 404
                /\ f.body.success = FALSE
                /\ users' = users]_vars

----------------------------------------------------------------------------
(* C17: a login request in which email or password is absent is answered   *)
(* 400 with success false, without looking up any admin record and without *)
(* issuing a token.                                                        *)

FieldAbsent(body) == body.email = Undefined \/ body.password = Undefined

\* the request is answered in the step that receives it, before the handler
\* awaits Admin.findOne
C17_LoginMissingFields ==
    [][\A s \in Connections :
          LET f == inflight'[s]
          IN  (inflight'[s] # inflight[s] /\ f.pc # "idle" /\ f.handler = "login"
                  /\ FieldAbsent(f.req.body)) =>
                /\ f.pc = "done"
                /\ f.status = 400
                /\ f.body.success = FALSE
                /\ "token" \notin DOMAIN f.body
                /\ storeOp' = storeOp
                /\ wallet' = wallet]_vars

\* with an admin registered under the email, a login without password got 400
C17_Witness ==
    \E s \in Connections :
        /\ Answered(s)
        /\ inflight[s].handler = "login"
        /\ inflight[s].req.body.password = Undefined
        /\ EmailTaken(inflight[s].req.body)
        /\ inflight[s].status = 400

----------------------------------------------------------------------------
(* C18: a token is issued only by a registration that has just stored an   *)
(* admin record, or by a login whose email resolves to an admin record     *)
(* whose stored hash the password matches; the subject of every token      *)
(* issued is the id of an admin record present in the store.               *)

Subject(token) == token.payload.id

C18_TokensForStoredAdmins ==
    /\ [][/\ IdsOf(admins) \subseteq IdsOf(admins')
          /\ \A s \in Connections :
                LET f == inflight'[s]
                IN  Answers(s) /\ "token" \in DOMAIN f.body =>
                      \/ /\ f.handler = "register"
                         /\ Len(admins') = Len(admins) + 1
                         /\ admins'[Len(admins')]._id = Subject(f.body.token)
                         /\ admins'[Len(admins')].email = CastEmail(f.req.body.email)
                      \/ /\ f.handler = "login"
                         /\ IsString(f.req.body.password)
                         /\ \E i \in 1..Len(admins) :
                               /\ admins[i].email = CastEmail(f.req.body.email)
                               /\ admins[i].password = Hash(f.req.body.password)
                               /\ admins[i]._id = Subject(f.body.token)]_vars
    /\ [](\A i \in 1..Len(wallet) : Subject(wallet[i]) \in IdsOf(admins))

\* a login has issued a token for the second of two stored admins
C18_Witness ==
    /\ Len(admins) = 2
    /\ \E s \in Connections :
          /\ Answered(s)
          /\ inflight[s].handler = "login"
          /\ "token" \in DOMAIN inflight[s].body
          /\ Subject(inflight[s].body.token) = admins[2]._id
          /\ wallet = <<inflight[s].body.token>>

----------------------------------------------------------------------------
(* C19: whatever their outcome, login, list-all, read-one, search and      *)
(* paginate requests leave the admin and the user collection unchanged,    *)
(* and so does a request that the gate rejects, on any route.              *)

ReadOnly == {"login", "listUsers", "getUser", "search", "paginate"}

\* connection s takes a step of its request: it is received, or resumed
Steps(s) == inflight'[s] # inflight[s] /\ inflight'[s].pc # "idle"

RejectedByGate(f) == Gated(f.req) /\ ~Authenticated(f)

C19_ReadsAndRejectionsChangeNothing ==
    [][\A s \in Connections :
          LET f == inflight'[s]
          IN  Steps(s) /\ (f.handler \in ReadOnly \/ RejectedByGate(f)) =>
                /\ admins' = admins
                /\ users' = users]_vars

\* with records stored, the gate has rejected a request to create a user
\* and the collections are as the reads before it left them
C19_Witness ==
    /\ admins # <<>>
    /\ users # <<>>
    /\ \E s \in Connections :
          /\ Answered(s)
          /\ inflight[s].handler = "createUser"
          /\ RejectedByGate(inflight[s])
          /\ inflight[s].status = 401

====
